---- MODULE Spec2Model ----
(***************************************************************************)
(* PyMotifFinder (pymotiffinder/motif_finder.py): the k-mer index         *)
(* make_kmer_dictionary, seed_starts, the windowed search                  *)
(* indexed_motif_finder, n_alignments_per_mutation, extend_matches, the    *)
(* aggregation templated_number with the division of its caller, and       *)
(* get_n_mutations, as state machines.                                     *)
(*                                                                         *)
(* Strings are sequences of one-letter strings; Python's 0-based indices   *)
(* are kept, so the character at Python index p of s is s[p + 1].  A       *)
(* mutation_index is a sequence of positions: a scalar index is the        *)
(* one-element sequence.  np.nan is the empty sequence NaN and a defined   *)
(* reference_alignment n is <<n>>.                                         *)
(***************************************************************************)
EXTENDS Integers, Sequences, FiniteSets, TLC

VARIABLES
    kmer_dict,        \* indexed_motif_finder: the k-mer dictionary argument
    k,                \* the k argument
    mutations,        \* the mutations data frame, a sequence of records
    all_matches,      \* the all_matches argument
    pc,               \* position in the function being run
    i,                \* index (1-based) of the record the outer loop is at
    start,            \* the window start the inner loop is at
    max_start,        \* upper end of the window range of record i
    found_match,      \* the found_match flag of record i
    row_list,         \* row_list, the rows appended so far
    out,              \* the data frame returned
    df,               \* templated_number: the data frame argument
    dale_method,      \* the dale_method argument
    already_seen_set, \* already_seen_set
    scoring,          \* scoring_and_mutation_matrices
    seen_log,         \* seen_before as computed for each row processed
    result,           \* (templated_number, total_mutations) returned
    fraction,         \* poly_motif_finder: hits / coverage_denom
    count_dict,       \* n_alignments_per_mutation: count_dict
    references_in,    \* make_kmer_dictionary: the references argument
    references,       \* references, as the loop of line 152 reads it
    reverse_complement, \* the reverse_complement argument
    positions,        \* seed_starts: the idx argument
    sequence_len,     \* seed_starts: the seq_len argument
    starts,           \* (min_start, max_start) returned by seed_starts
    left,             \* extend_matches: left
    right,            \* extend_matches: right
    unique,           \* get_n_mutations: the unique argument
    mutation_set,     \* get_n_mutations: mutation_set
    n_mutations       \* the count returned by get_n_mutations

vars == <<kmer_dict, k, mutations, all_matches, pc, i, start, max_start,
          found_match, row_list, out, df, dale_method, already_seen_set,
          scoring, seen_log, result, fraction, count_dict, references_in,
          references, reverse_complement, positions, sequence_len, starts,
          left, right, unique, mutation_set, n_mutations>>

searchVars == <<kmer_dict, k, mutations, all_matches, i, start, max_start,
                found_match, row_list, out>>

aggVars == <<df, dale_method, already_seen_set, scoring, seen_log, result>>

buildVars == <<references_in, references, reverse_complement, positions,
               sequence_len, starts>>

extendVars == <<left, right>>

countVars == <<unique, mutation_set, n_mutations>>

----------------------------------------------------------------------------
(* Bounds of the explored inputs. *)

MaxRefs == 2
MaxRefLen == 3
MaxSeqLen == 3
MaxK == 3
MaxRecords == 2
MaxRows == 3

Alphabet == {"A", "C"}

NaN == <<>>

----------------------------------------------------------------------------
(* Python and numpy primitives. *)

Max2(a, b) == IF a >= b THEN a ELSE b

Min2(a, b) == IF a <= b THEN a ELSE b

NpMax(idx) == CHOOSE m \in {idx[n] : n \in DOMAIN idx} :
                  \A n \in DOMAIN idx : idx[n] <= m

NpMin(idx) == CHOOSE m \in {idx[n] : n \in DOMAIN idx} :
                  \A n \in DOMAIN idx : idx[n] >= m

\* A slice bound of Python: a negative bound counts from the end, and the
\* result is clamped to [0, n].
SliceBound(b, n) == IF b < 0 THEN Max2(b + n, 0) ELSE Min2(b, n)

\* s[a:b]
PySlice(s, a, b) == SubSeq(s, SliceBound(a, Len(s)) + 1, SliceBound(b, Len(s)))

SeqsOf(S, lo, hi) == UNION {[1..n -> S] : n \in lo..hi}

Range(f) == {f[x] : x \in DOMAIN f}

----------------------------------------------------------------------------
(* seed_starts *)

\* SeedStarts reading the first position for both ends of the index.
SeedStartsOfFirstPosition(idx, seed_len, seq_len) ==
    <<Max2(0, idx[1] - seed_len + 1), Min2(seq_len - seed_len, idx[1])>>

\* SeedStarts with the last start bounded by the sequence alone.
SeedStartsIgnoringWindowEnd(idx, seed_len, seq_len) ==
    <<Max2(0, NpMax(idx) - seed_len + 1), Min2(seq_len - 1, NpMin(idx))>>

SeedStarts(idx, seed_len, seq_len) ==
    LET idx_hi == NpMax(idx)
        idx_lo == NpMin(idx)
        min_start == Max2(0, idx_hi - seed_len + 1)
        max_start_ == Min2(seq_len - seed_len, idx_lo)
    IN  <<min_start, max_start_>>

----------------------------------------------------------------------------
(* make_kmer_dictionary *)

Complement(b) == CASE b = "A" -> "T"
                   [] b = "T" -> "A"
                   [] b = "C" -> "G"
                   [] b = "G" -> "C"

\* ReverseComplement without the reversal.
ComplementInPlace(seq) == [n \in 1..Len(seq) |-> Complement(seq[n])]

ReverseComplement(seq) ==
    [n \in 1..Len(seq) |-> Complement(seq[Len(seq) + 1 - n])]

EmptyDict == [x \in {} |-> {}]

\* d[kmer].add(occ), or d[kmer] = set([occ]) for a new key
AddKmer(d, kmer, occ) ==
    IF kmer \in DOMAIN d
    THEN [d EXCEPT ![kmer] = @ \cup {occ}]
    ELSE d @@ (kmer :> {occ})

RECURSIVE IndexReferenceWithoutLastWindow(_, _, _, _)
\* IndexReference with range(start_, seq_len - k).
IndexReferenceWithoutLastWindow(d, ref, k_, start_) ==
    IF start_ >= Len(ref.seq) - k_
    THEN d
    ELSE IndexReferenceWithoutLastWindow(
             AddKmer(d, PySlice(ref.seq, start_, start_ + k_),
                     <<ref.name, ref.seq, start_>>),
             ref, k_, start_ + 1)

RECURSIVE IndexReferenceEveryStart(_, _, _, _)
\* IndexReference with range(start_, seq_len).
IndexReferenceEveryStart(d, ref, k_, start_) ==
    IF start_ >= Len(ref.seq)
    THEN d
    ELSE IndexReferenceEveryStart(
             AddKmer(d, PySlice(ref.seq, start_, start_ + k_),
                     <<ref.name, ref.seq, start_>>),
             ref, k_, start_ + 1)

RECURSIVE IndexReference(_, _, _, _)
\* for start in range(start_, seq_len - k + 1)
IndexReference(d, ref, k_, start_) ==
    IF start_ >= Len(ref.seq) - k_ + 1
    THEN d
    ELSE IndexReference(
             AddKmer(d, PySlice(ref.seq, start_, start_ + k_),
                     <<ref.name, ref.seq, start_>>),
             ref, k_, start_ + 1)

RECURSIVE IndexReferences(_, _, _, _)
\* for ref in references, from the n-th on
IndexReferences(d, refs, k_, n) ==
    IF n > Len(refs)
    THEN d
    ELSE IndexReferences(IndexReference(d, refs[n], k_, 0), refs, k_, n + 1)

WithReverseComplements(refs) ==
    refs \o [n \in 1..Len(refs) |->
                [name |-> refs[n].name \o "_rc",
                 seq |-> ReverseComplement(refs[n].seq)]]

MakeKmerDictionary(refs, k_, rc) ==
    IndexReferences(EmptyDict,
                    IF rc THEN WithReverseComplements(refs) ELSE refs,
                    k_, 1)

----------------------------------------------------------------------------
(* Data frame primitives of pandas used by indexed_motif_finder. *)

RECURSIVE DropDuplicatesAdjacent(_)
\* DropDuplicates dropping a row only when it equals the row before it.
DropDuplicatesAdjacent(rows) ==
    IF rows = <<>>
    THEN <<>>
    ELSE LET front == DropDuplicatesAdjacent(SubSeq(rows, 1, Len(rows) - 1))
             last == rows[Len(rows)]
         IN  IF front # <<>> /\ front[Len(front)] = last
             THEN front
             ELSE Append(front, last)

RECURSIVE DropDuplicates(_)
\* DataFrame.drop_duplicates(): the first of equal rows is kept, in order
\* (rows whose reference_alignment is NaN compare equal).
DropDuplicates(rows) ==
    IF rows = <<>>
    THEN <<>>
    ELSE LET front == DropDuplicates(SubSeq(rows, 1, Len(rows) - 1))
             last == rows[Len(rows)]
         IN  IF last \in Range(front) THEN front ELSE Append(front, last)

\* The orders in which a Python set can be iterated.
RECURSIVE Orderings(_)
Orderings(S) ==
    IF S = {}
    THEN {<<>>}
    ELSE UNION {{<<x>> \o rest : rest \in Orderings(S \ {x})} : x \in S}

----------------------------------------------------------------------------
(* indexed_motif_finder *)

\* MatchRow with the offset of the seed for the alignment: mut_offset is
\* left out.
MatchRowAtSeed(rec, occ, mut_offset) ==
    [query_sequence |-> rec.mutated_seq,
     query_name |-> rec.mutated_seq_id,
     query_mutation_index |-> rec.mutation_index,
     naive_sequence |-> rec.naive_seq,
     mutated_base |-> rec.mutated_base,
     reference_name |-> occ[1],
     reference_sequence |-> occ[2],
     reference_alignment |-> <<occ[3]>>]

\* The row appended for one occurrence of the seed.
MatchRow(rec, occ, mut_offset) ==
    [query_sequence |-> rec.mutated_seq,
     query_name |-> rec.mutated_seq_id,
     query_mutation_index |-> rec.mutation_index,
     naive_sequence |-> rec.naive_seq,
     mutated_base |-> rec.mutated_base,
     reference_name |-> occ[1],
     reference_sequence |-> occ[2],
     reference_alignment |-> <<occ[3] + mut_offset>>]

\* The row appended when no window of the record matched.
NoMatchRow(rec) ==
    [query_sequence |-> rec.mutated_seq,
     query_name |-> rec.mutated_seq_id,
     query_mutation_index |-> rec.mutation_index,
     naive_sequence |-> rec.naive_seq,
     mutated_base |-> rec.mutated_base,
     reference_name |-> "",
     reference_sequence |-> <<>>,
     reference_alignment |-> NaN]

\* match_exists(x): np.isnan(x) is False
MatchExists(x) == x # NaN

\* The columns kept in match_exists_df.
CollapsedRow(row) ==
    [query_sequence |-> row.query_sequence,
     query_name |-> row.query_name,
     query_mutation_index |-> row.query_mutation_index,
     naive_sequence |-> row.naive_sequence,
     mutated_base |-> row.mutated_base,
     match_exists |-> MatchExists(row.reference_alignment)]

\* MatchExistsDf without the drop_duplicates of line 280.
MatchExistsDfKeepingDuplicates(all_matches_df) ==
    [n \in 1..Len(all_matches_df) |-> CollapsedRow(all_matches_df[n])]

MatchExistsDf(all_matches_df) ==
    DropDuplicates([n \in 1..Len(all_matches_df) |->
                       CollapsedRow(all_matches_df[n])])

\* WindowRows with the offset taken from the right-most mutated position.
WindowRowsFromRightmost(rec, start_, order) ==
    LET mut_offset == NpMax(rec.mutation_index) - start_
    IN  [n \in 1..Len(order) |-> MatchRow(rec, order[n], mut_offset)]

\* Rows appended for the window at start_, the set kmer_dict[seed] being
\* iterated in the order given.
WindowRows(rec, start_, order) ==
    LET mut_offset == NpMin(rec.mutation_index) - start_
    IN  [n \in 1..Len(order) |-> MatchRow(rec, order[n], mut_offset)]

\* RowsAfterRecord with found_match not consulted.
RowsAfterRecordUnguarded(rows, rec, found) == Append(rows, NoMatchRow(rec))

\* Lines 260-270: row_list once the windows of the record are done.
RowsAfterRecord(rows, rec, found) ==
    IF found THEN rows ELSE Append(rows, NoMatchRow(rec))

\* Lines 232-240: the outer loop reaches record i.
BeginRecord ==
    /\ pc = "loop"
    /\ i <= Len(mutations)
    /\ LET rec == mutations[i]
           range == SeedStarts(rec.mutation_index, k, Len(rec.mutated_seq))
       IN  /\ start' = range[1]
           /\ max_start' = range[2]
    /\ found_match' = FALSE
    /\ pc' = "window"
    /\ UNCHANGED <<kmer_dict, k, mutations, all_matches, i, row_list, out>>
    /\ UNCHANGED <<aggVars, fraction, count_dict, buildVars, extendVars, countVars>>

\* Lines 241-257: one iteration of the loop over the window starts.
ProbeWindow ==
    /\ pc = "window"
    /\ start <= max_start
    /\ LET rec == mutations[i]
           seed == PySlice(rec.mutated_seq, start, start + k)
       IN  IF seed \in DOMAIN kmer_dict
           THEN /\ \E order \in Orderings(kmer_dict[seed]) :
                       row_list' = row_list \o WindowRows(rec, start, order)
                /\ found_match' = TRUE
           ELSE UNCHANGED <<row_list, found_match>>
    /\ start' = start + 1
    /\ UNCHANGED <<kmer_dict, k, mutations, all_matches, pc, i, max_start, out>>
    /\ UNCHANGED <<aggVars, fraction, count_dict, buildVars, extendVars, countVars>>

\* Lines 258-270: the window range is exhausted.
EndRecord ==
    /\ pc = "window"
    /\ start > max_start
    /\ row_list' = RowsAfterRecord(row_list, mutations[i], found_match)
    /\ i' = i + 1
    /\ pc' = "loop"
    /\ UNCHANGED <<kmer_dict, k, mutations, all_matches, start, max_start,
                   found_match, out>>
    /\ UNCHANGED <<aggVars, fraction, count_dict, buildVars, extendVars, countVars>>

\* Line 271: all records are done.
BuildAllMatchesDf ==
    /\ pc = "loop"
    /\ i > Len(mutations)
    /\ out' = DropDuplicates(row_list)
    /\ pc' = "dedup"
    /\ UNCHANGED <<kmer_dict, k, mutations, all_matches, i, start, max_start,
                   found_match, row_list>>
    /\ UNCHANGED <<aggVars, fraction, count_dict, buildVars, extendVars, countVars>>

\* Lines 272-273, all_matches being True.
ReturnAllMatches ==
    /\ pc = "dedup"
    /\ all_matches' = TRUE
    /\ pc' = "done"
    /\ UNCHANGED <<kmer_dict, k, mutations, i, start, max_start, found_match,
                   row_list, out>>
    /\ UNCHANGED <<aggVars, fraction, count_dict, buildVars, extendVars, countVars>>

\* Lines 274-281, all_matches being False and the frame having rows.
ReturnMatchExists ==
    /\ pc = "dedup"
    /\ out # <<>>
    /\ all_matches' = FALSE
    /\ out' = MatchExistsDf(out)
    /\ pc' = "done"
    /\ UNCHANGED <<kmer_dict, k, mutations, i, start, max_start, found_match,
                   row_list>>
    /\ UNCHANGED <<aggVars, fraction, count_dict, buildVars, extendVars, countVars>>

\* Line 278, all_matches being False and the frame built from an empty
\* row_list: it has no reference_alignment column, and the lookup raises
\* KeyError.
RaiseKeyError ==
    /\ pc = "dedup"
    /\ out = <<>>
    /\ all_matches' = FALSE
    /\ pc' = "error"
    /\ UNCHANGED <<kmer_dict, k, mutations, i, start, max_start, found_match,
                   row_list, out>>
    /\ UNCHANGED <<aggVars, fraction, count_dict, buildVars, extendVars, countVars>>

----------------------------------------------------------------------------
(* n_alignments_per_mutation *)

\* CountRow with the increment of a row without alignment being 1 too.
CountRowCountingNaN(d, row) ==
    LET key == <<row.query_name, row.query_mutation_index>>
    IN  IF key \in DOMAIN d
        THEN [d EXCEPT ![key] = @ + 1]
        ELSE d @@ (key :> 1)

\* Lines 186-197: count_dict after one row of imf.
CountRow(d, row) ==
    LET key == <<row.query_name, row.query_mutation_index>>
        increment == IF row.reference_alignment = NaN THEN 0 ELSE 1
    IN  IF key \in DOMAIN d
        THEN [d EXCEPT ![key] = @ + increment]
        ELSE d @@ (key :> increment)

RECURSIVE CountRows(_, _, _)
\* Lines 185-197: the loop over the rows of imf, from the n-th on.
CountRows(d, rows, n) ==
    IF n > Len(rows)
    THEN d
    ELSE CountRows(CountRow(d, rows[n]), rows, n + 1)

\* Lines 178-206, the search of line 178 having returned its frame: the
\* frame returned has one row for each key of count_dict.
CountAlignments ==
    /\ pc = "done"
    /\ all_matches
    /\ count_dict' = CountRows(EmptyDict, out, 1)
    /\ pc' = "counted"
    /\ UNCHANGED <<searchVars, aggVars, fraction, buildVars, extendVars,
                   countVars>>

----------------------------------------------------------------------------
(* templated_number and set_scoring_and_mutation_dict *)

\* The key looked up in already_seen_set for a row.
Triple(row) ==
    <<row.naive_sequence, row.query_mutation_index, row.mutated_base>>

\* SetScoringEntry with the old value of the entry overwritten, not merged.
SetScoringEntryOverwriting(d, key, is_templated, was_seen_before) ==
    IF key \in DOMAIN d
    THEN [d EXCEPT ![key] = <<is_templated, was_seen_before>>]
    ELSE d @@ (key :> <<is_templated, was_seen_before>>)

\* Lines 356-364, for one position m of the mutation index.
SetScoringEntry(d, key, is_templated, was_seen_before) ==
    LET old_value == IF key \in DOMAIN d THEN d[key] ELSE <<FALSE, FALSE>>
        new_value == <<old_value[1] \/ is_templated,
                       old_value[2] \/ was_seen_before>>
    IN  IF key \in DOMAIN d
        THEN [d EXCEPT ![key] = new_value]
        ELSE d @@ (key :> new_value)

\* SetScoringAndMutationDict that scores the first position of a tuple only.
SetScoringOfFirstPosition(mutated_seq_name, mutation_index, is_templated, was_seen_before, d, n) ==
    IF mutation_index = <<>>
    THEN d
    ELSE SetScoringEntry(d, <<mutated_seq_name, mutation_index[1]>>,
                         is_templated, was_seen_before)

RECURSIVE SetScoringAndMutationDict(_, _, _, _, _, _)
\* for m in mutation_index, from the n-th position on
SetScoringAndMutationDict(mutated_seq_name, mutation_index, is_templated, was_seen_before, d, n) ==
    IF n > Len(mutation_index)
    THEN d
    ELSE SetScoringAndMutationDict(
             mutated_seq_name, mutation_index, is_templated, was_seen_before,
             SetScoringEntry(d, <<mutated_seq_name, mutation_index[n]>>,
                             is_templated, was_seen_before),
             n + 1)

\* SeenBefore looked up after the row's own triple is inserted.
SeenBeforeAfterInsert(row, seen) == Triple(row) \in (seen \cup {Triple(row)})

\* SeenBefore that finds nothing.
SeenBeforeNever(row, seen) == FALSE

\* seen_before of line 339
SeenBefore(row, seen) == Triple(row) \in seen

\* Line 340: the dictionary after the row.
ScoreRow(row, seen, d) ==
    SetScoringAndMutationDict(row.query_name, row.query_mutation_index,
                              row.match_exists, SeenBefore(row, seen), d, 1)

\* MarkSeen that inserts nothing.
MarkSeenNever(row, seen, dale) == seen

\* Lines 342-343: already_seen_set after the row.
MarkSeen(row, seen, dale) == IF dale THEN seen \cup {Triple(row)} ELSE seen

\* Counts whose templated sum under dale_method leaves seen_before out.
CountsIgnoringSeen(d, dale) ==
    IF dale
    THEN <<Cardinality({key \in DOMAIN d : d[key][1]}),
           Cardinality({key \in DOMAIN d : ~d[key][2]})>>
    ELSE <<Cardinality({key \in DOMAIN d : d[key][1]}),
           Cardinality(DOMAIN d)>>

\* Counts whose templated sum under dale_method has "or" for "and".
CountsWithOr(d, dale) ==
    IF dale
    THEN <<Cardinality({key \in DOMAIN d : d[key][1] \/ ~d[key][2]}),
           Cardinality({key \in DOMAIN d : ~d[key][2]})>>
    ELSE <<Cardinality({key \in DOMAIN d : d[key][1]}),
           Cardinality(DOMAIN d)>>

\* Lines 344-350: the two sums over the values of the dictionary.
Counts(d, dale) ==
    IF dale
    THEN <<Cardinality({key \in DOMAIN d : d[key][1] /\ ~d[key][2]}),
           Cardinality({key \in DOMAIN d : ~d[key][2]})>>
    ELSE <<Cardinality({key \in DOMAIN d : d[key][1]}),
           Cardinality(DOMAIN d)>>

RECURSIVE ScoreRows(_, _, _, _, _)
\* The loop of lines 337-343 from row n on.
ScoreRows(rows, dale, seen, d, n) ==
    IF n > Len(rows)
    THEN d
    ELSE ScoreRows(rows, dale, MarkSeen(rows[n], seen, dale),
                   ScoreRow(rows[n], seen, d), n + 1)

\* templated_number(df, dale_method) as a function of its arguments.
TemplatedNumber(rows, dale) ==
    Counts(ScoreRows(rows, dale, {}, EmptyDict, 1), dale)

\* Lines 337-343: one iteration of the loop over the rows.
ProcessRow ==
    /\ pc = "score"
    /\ i <= Len(df)
    /\ seen_log' = Append(seen_log, SeenBefore(df[i], already_seen_set))
    /\ scoring' = ScoreRow(df[i], already_seen_set, scoring)
    /\ already_seen_set' = MarkSeen(df[i], already_seen_set, dale_method)
    /\ i' = i + 1
    /\ UNCHANGED <<kmer_dict, k, mutations, all_matches, pc, start, max_start,
                   found_match, row_list, out, df, dale_method, result>>
    /\ UNCHANGED <<fraction, count_dict, buildVars, extendVars, countVars>>

\* Lines 344-350: the loop is over.
ReturnCounts ==
    /\ pc = "score"
    /\ i > Len(df)
    /\ result' = Counts(scoring, dale_method)
    /\ pc' = "scored"
    /\ UNCHANGED <<kmer_dict, k, mutations, all_matches, i, start, max_start,
                   found_match, row_list, out, df, dale_method,
                   already_seen_set, scoring, seen_log>>
    /\ UNCHANGED <<fraction, count_dict, buildVars, extendVars, countVars>>

\* poly_motif_finder, line 88: hits / coverage_denom.  Both are the Python
\* floats of line 350; the quotient is kept as the pair of its terms.
Divide ==
    /\ pc = "scored"
    /\ result[2] # 0
    /\ fraction' = result
    /\ pc' = "divided"
    /\ UNCHANGED <<searchVars, aggVars, count_dict, buildVars, extendVars,
                   countVars>>

\* Line 88 with coverage_denom = 0.0: the division of two Python floats
\* raises ZeroDivisionError.
RaiseZeroDivisionError ==
    /\ pc = "scored"
    /\ result[2] = 0
    /\ pc' = "ZeroDivisionError"
    /\ UNCHANGED <<searchVars, aggVars, fraction, count_dict, buildVars,
                   extendVars, countVars>>

----------------------------------------------------------------------------
(* The state of a function that is not being run. *)

SearchIdle ==
    /\ kmer_dict = EmptyDict
    /\ k = 1
    /\ mutations = <<>>
    /\ all_matches = TRUE
    /\ start = 0
    /\ max_start = 0
    /\ found_match = FALSE
    /\ row_list = <<>>
    /\ out = <<>>

AggIdle ==
    /\ df = <<>>
    /\ dale_method = FALSE
    /\ already_seen_set = {}
    /\ scoring = EmptyDict
    /\ seen_log = <<>>
    /\ result = <<0, 0>>

BuildIdle ==
    /\ references_in = <<>>
    /\ references = <<>>
    /\ reverse_complement = FALSE
    /\ positions = <<0>>
    /\ sequence_len = 0
    /\ starts = <<0, 0>>

ExtendIdle ==
    /\ left = 0
    /\ right = 0

CountIdle ==
    /\ unique = FALSE
    /\ mutation_set = {}
    /\ n_mutations = 0

----------------------------------------------------------------------------
(* The inputs explored for indexed_motif_finder. *)

RefNames == <<"r1", "r2", "r3", "r4">>

QueryNameSeq == <<"s1", "s2">>

QueryNames == Range(QueryNameSeq)

NaiveSeqs == {"n1"}

\* Lists of up to m references named r1, r2, ... with sequences of length
\* 1..MaxRefLen.
RefLists(m) ==
    UNION {{[n \in 1..c |-> [name |-> RefNames[n], seq |-> seqs[n]]] :
               seqs \in [1..c -> SeqsOf(Alphabet, 1, MaxRefLen)]} : c \in 0..m}

\* One position, or two positions in increasing order, of a sequence of
\* length n.
MutationIndices(n) ==
    {<<p>> : p \in 0..(n - 1)}
        \cup {pq \in (0..(n - 1)) \X (0..(n - 1)) : pq[1] < pq[2]}

\* The records the mutated sequence s can give: mutated_base holds the bases
\* of mutated_seq at the mutated positions.
RecordsOf(s) ==
    {[mutated_seq |-> s, naive_seq |-> nv, mutated_seq_id |-> id,
      mutation_index |-> idx,
      mutated_base |-> [n \in 1..Len(idx) |-> s[idx[n] + 1]]] :
        nv \in NaiveSeqs, id \in QueryNames, idx \in MutationIndices(Len(s))}

Records == UNION {RecordsOf(s) : s \in SeqsOf(Alphabet, 1, MaxSeqLen)}

\* Records of one mutated sequence carry its sequence and naive sequence.
SameSequence(batch) ==
    \A m, n \in DOMAIN batch :
        batch[m].mutated_seq_id = batch[n].mutated_seq_id
            => /\ batch[m].mutated_seq = batch[n].mutated_seq
               /\ batch[m].naive_seq = batch[n].naive_seq

\* The mutated sequences are named s1, s2, ... in the order they first
\* appear in the batch.
NamedInOrder(batch) ==
    \A n \in DOMAIN batch, j \in DOMAIN QueryNameSeq :
        (batch[n].mutated_seq_id = QueryNameSeq[j] /\ j > 1)
            => \E m \in 1..(n - 1) :
                   batch[m].mutated_seq_id = QueryNameSeq[j - 1]

Batches(m) ==
    {batch \in SeqsOf(Records, 0, m) :
        SameSequence(batch) /\ NamedInOrder(batch)}

\* Up to MaxRefs references with one record, or one reference with up to
\* MaxRecords records.
InputShapes == {<<MaxRefs, 1>>, <<1, MaxRecords>>}

InitSearch ==
    /\ k \in 1..MaxK
    /\ \E shape \in InputShapes :
           /\ \E refs \in RefLists(shape[1]) :
                  kmer_dict = MakeKmerDictionary(refs, k, FALSE)
           /\ mutations \in Batches(shape[2])
    /\ all_matches = TRUE
    /\ pc = "loop"
    /\ i = 1
    /\ start = 0
    /\ max_start = 0
    /\ found_match = FALSE
    /\ row_list = <<>>
    /\ out = <<>>
    /\ df = <<>>
    /\ dale_method = FALSE
    /\ already_seen_set = {}
    /\ scoring = EmptyDict
    /\ seen_log = <<>>
    /\ result = <<0, 0>>
    /\ fraction = <<0, 1>>
    /\ count_dict = EmptyDict
    /\ BuildIdle
    /\ ExtendIdle
    /\ CountIdle

NextSearch ==
    \/ BeginRecord
    \/ ProbeWindow
    \/ EndRecord
    \/ BuildAllMatchesDf
    \/ ReturnAllMatches
    \/ ReturnMatchExists
    \/ RaiseKeyError
    \/ CountAlignments

SpecSearch == InitSearch /\ [][NextSearch]_vars

----------------------------------------------------------------------------
(* The inputs explored for templated_number. *)

AggNaiveSeqs == {"n1", "n2"}

AggIndices == {<<0>>, <<1>>, <<0, 1>>}

\* The columns of a collapsed row that templated_number reads; a base is
\* given for each position of the index.
AggRowsOf(idx) ==
    {[query_name |-> q, naive_sequence |-> nv, query_mutation_index |-> idx,
      mutated_base |-> [n \in 1..Len(idx) |-> b], match_exists |-> t] :
        q \in QueryNames, nv \in AggNaiveSeqs, b \in Alphabet, t \in BOOLEAN}

AggRows == UNION {AggRowsOf(idx) : idx \in AggIndices}

InitAgg ==
    /\ df \in SeqsOf(AggRows, 0, MaxRows)
    /\ dale_method \in BOOLEAN
    /\ already_seen_set = {}
    /\ scoring = EmptyDict
    /\ seen_log = <<>>
    /\ result = <<0, 0>>
    /\ pc = "score"
    /\ i = 1
    /\ kmer_dict = EmptyDict
    /\ k = 1
    /\ mutations = <<>>
    /\ all_matches = TRUE
    /\ start = 0
    /\ max_start = 0
    /\ found_match = FALSE
    /\ row_list = <<>>
    /\ out = <<>>
    /\ fraction = <<0, 1>>
    /\ count_dict = EmptyDict
    /\ BuildIdle
    /\ ExtendIdle
    /\ CountIdle

NextAgg ==
    \/ ProcessRow
    \/ ReturnCounts
    \/ Divide
    \/ RaiseZeroDivisionError

SpecAgg == InitAgg /\ [][NextAgg]_vars

----------------------------------------------------------------------------
(* make_kmer_dictionary, and the seed_starts call of a search with the k   *)
(* of the index (motif_finder, lines 41-44; indexed_motif_finder, line     *)
(* 240).                                                                   *)

IndexAlphabet == {"A", "C", "G", "T"}

\* Two bases that are each other's complement.
PairedBases == {"A", "T"}

\* Lists of up to m references named r1, r2, ... with sequences of length
\* 0..MaxRefLen over the bases S.
RefListsOver(S, m) ==
    UNION {{[n \in 1..c |-> [name |-> RefNames[n], seq |-> seqs[n]]] :
               seqs \in [1..c -> SeqsOf(S, 0, MaxRefLen)]} : c \in 0..m}

\* One reference over the four bases, or up to m references over two
\* bases that are each other's complement.
IndexRefLists(m) ==
    RefListsOver(IndexAlphabet, 1) \cup RefListsOver(PairedBases, m)

InitIndex ==
    /\ references_in \in IndexRefLists(MaxRefs)
    /\ references = references_in
    /\ reverse_complement \in BOOLEAN
    /\ k \in (-1)..MaxK
    /\ kmer_dict = EmptyDict
    /\ positions = <<0>>
    /\ sequence_len = 0
    /\ starts = <<0, 0>>
    /\ pc = "build"
    /\ i = 1
    /\ mutations = <<>>
    /\ all_matches = TRUE
    /\ start = 0
    /\ max_start = 0
    /\ found_match = FALSE
    /\ row_list = <<>>
    /\ out = <<>>
    /\ AggIdle
    /\ fraction = <<0, 1>>
    /\ count_dict = EmptyDict
    /\ ExtendIdle
    /\ CountIdle

\* Lines 146-151, reverse_complement being True.
AddReverseComplements ==
    /\ pc = "build"
    /\ reverse_complement
    /\ references' = WithReverseComplements(references)
    /\ pc' = "index"
    /\ UNCHANGED <<searchVars, aggVars, fraction, count_dict, references_in,
                   reverse_complement, positions, sequence_len, starts,
                   extendVars, countVars>>

\* Line 146, reverse_complement being False.
SkipReverseComplements ==
    /\ pc = "build"
    /\ ~reverse_complement
    /\ pc' = "index"
    /\ UNCHANGED <<searchVars, aggVars, fraction, count_dict, buildVars,
                   extendVars, countVars>>

\* Lines 152-160: one iteration of the loop over the references.
IndexNextReference ==
    /\ pc = "index"
    /\ i <= Len(references)
    /\ kmer_dict' = IndexReference(kmer_dict, references[i], k, 0)
    /\ i' = i + 1
    /\ UNCHANGED <<k, mutations, all_matches, pc, start, max_start,
                   found_match, row_list, out>>
    /\ UNCHANGED <<aggVars, fraction, count_dict, buildVars, extendVars,
                   countVars>>

\* Line 161.
ReturnDict ==
    /\ pc = "index"
    /\ i > Len(references)
    /\ pc' = "built"
    /\ UNCHANGED <<searchVars, aggVars, fraction, count_dict, buildVars,
                   extendVars, countVars>>

\* Line 240: seed_starts(mut_idx, k, seq_len) for a record of the search
\* that uses the index.
CallSeedStarts ==
    /\ pc = "built"
    /\ \E n \in 1..MaxSeqLen :
           \E idx \in MutationIndices(n) :
               /\ positions' = idx
               /\ sequence_len' = n
               /\ starts' = SeedStarts(idx, k, n)
    /\ pc' = "seeded"
    /\ UNCHANGED <<searchVars, aggVars, fraction, count_dict, references_in,
                   references, reverse_complement, extendVars, countVars>>

NextIndex ==
    \/ AddReverseComplements
    \/ SkipReverseComplements
    \/ IndexNextReference
    \/ ReturnDict
    \/ CallSeedStarts

SpecIndex == InitIndex /\ [][NextIndex]_vars

----------------------------------------------------------------------------
(* extend_matches *)

MaxExtendRows == 1

\* int(np.min(df.loc[row, "query_mutation_index"]))
QueryIdx(row) == NpMin(row.query_mutation_index)

\* int(df.loc[row, "reference_alignment"])
RefIdx(row) == row.reference_alignment[1]

\* CanExtendLeft comparing the letters at the offset l, not l + 1.
CanExtendLeftFromCurrent(row, l) ==
    /\ ~(QueryIdx(row) - l - 1 < 0)
    /\ ~(RefIdx(row) - l - 1 < 0)
    /\ row.reference_sequence[RefIdx(row) - l + 1]
           = row.query_sequence[QueryIdx(row) - l + 1]

\* Lines 301-308: the first loop goes on, left being l.
CanExtendLeft(row, l) ==
    /\ ~(QueryIdx(row) - l - 1 < 0)
    /\ ~(RefIdx(row) - l - 1 < 0)
    /\ row.reference_sequence[(RefIdx(row) - l - 1) + 1]
           = row.query_sequence[(QueryIdx(row) - l - 1) + 1]

\* Lines 310-318: the second loop goes on, right being r.
CanExtendRight(row, r) ==
    /\ ~(RefIdx(row) + r + 1 >= Len(row.reference_sequence))
    /\ ~(QueryIdx(row) + r + 1 >= Len(row.query_sequence))
    /\ row.reference_sequence[(RefIdx(row) + r + 1) + 1]
           = row.query_sequence[(QueryIdx(row) + r + 1) + 1]

\* Lines 288-290: the three columns, 0 in every row.
WithExtentColumns(row) ==
    row @@ [match_extent |-> 0, query_left_idx |-> 0, query_right_idx |-> 0]

\* Lines 319-321.
WithExtent(row, l, r) ==
    [row EXCEPT !.match_extent = l + r + 1,
                !.query_left_idx = QueryIdx(row) - l,
                !.query_right_idx = QueryIdx(row) + r]

\* The rows indexed_motif_finder can return for a record: the no-match row,
\* or a match row for a reference and a position of it.
ExtendRowsOf(rec) ==
    {NoMatchRow(rec)}
        \cup UNION {{MatchRow(rec, <<RefNames[1], seq, p>>, 0) :
                        p \in 0..(Len(seq) - 1)} :
                       seq \in SeqsOf(Alphabet, 1, MaxRefLen)}

\* Frames of up to MaxExtendRows rows of one record.
ExtendFrames ==
    UNION {SeqsOf(ExtendRowsOf(rec), 0, MaxExtendRows) :
              rec \in {r \in Records : r.mutated_seq_id = QueryNameSeq[1]}}

InitExtend ==
    /\ df \in ExtendFrames
    /\ left = 0
    /\ right = 0
    /\ pc = "columns"
    /\ i = 1
    /\ SearchIdle
    /\ dale_method = FALSE
    /\ already_seen_set = {}
    /\ scoring = EmptyDict
    /\ seen_log = <<>>
    /\ result = <<0, 0>>
    /\ fraction = <<0, 1>>
    /\ count_dict = EmptyDict
    /\ BuildIdle
    /\ CountIdle

\* Lines 287-290.
AddColumns ==
    /\ pc = "columns"
    /\ df' = [n \in DOMAIN df |-> WithExtentColumns(df[n])]
    /\ pc' = "rows"
    /\ UNCHANGED <<searchVars, dale_method, already_seen_set, scoring,
                   seen_log, result, fraction, count_dict, buildVars,
                   extendVars, countVars>>

\* Lines 291-293: a row without reference is passed over.
SkipRow ==
    /\ pc = "rows"
    /\ i <= Len(df)
    /\ df[i].reference_sequence = <<>>
    /\ i' = i + 1
    /\ UNCHANGED <<kmer_dict, k, mutations, all_matches, pc, start, max_start,
                   found_match, row_list, out>>
    /\ UNCHANGED <<aggVars, fraction, count_dict, buildVars, extendVars,
                   countVars>>

\* Lines 291-299: a row with a reference.
BeginRow ==
    /\ pc = "rows"
    /\ i <= Len(df)
    /\ df[i].reference_sequence # <<>>
    /\ left' = 0
    /\ right' = 0
    /\ pc' = "left"
    /\ UNCHANGED <<searchVars, aggVars, fraction, count_dict, buildVars,
                   countVars>>

\* Lines 300-306: left += 1.
ExtendLeft ==
    /\ pc = "left"
    /\ CanExtendLeft(df[i], left)
    /\ left' = left + 1
    /\ UNCHANGED <<searchVars, aggVars, pc, fraction, count_dict, buildVars,
                   right, countVars>>

\* Lines 300-308: a break of the first loop.
StopLeft ==
    /\ pc = "left"
    /\ ~CanExtendLeft(df[i], left)
    /\ pc' = "right"
    /\ UNCHANGED <<searchVars, aggVars, fraction, count_dict, buildVars,
                   extendVars, countVars>>

\* Lines 309-316: right += 1.
ExtendRight ==
    /\ pc = "right"
    /\ CanExtendRight(df[i], right)
    /\ right' = right + 1
    /\ UNCHANGED <<searchVars, aggVars, pc, fraction, count_dict, buildVars,
                   left, countVars>>

\* Lines 309-321: a break of the second loop, and the three columns of the
\* row.
StoreExtent ==
    /\ pc = "right"
    /\ ~CanExtendRight(df[i], right)
    /\ df' = [df EXCEPT ![i] = WithExtent(@, left, right)]
    /\ i' = i + 1
    /\ pc' = "rows"
    /\ UNCHANGED <<kmer_dict, k, mutations, all_matches, start, max_start,
                   found_match, row_list, out>>
    /\ UNCHANGED <<dale_method, already_seen_set, scoring, seen_log, result,
                   fraction, count_dict, buildVars, extendVars, countVars>>

\* Line 291: the rows are exhausted.
ReturnExtended ==
    /\ pc = "rows"
    /\ i > Len(df)
    /\ pc' = "extended"
    /\ UNCHANGED <<searchVars, aggVars, fraction, count_dict, buildVars,
                   extendVars, countVars>>

NextExtend ==
    \/ AddColumns
    \/ SkipRow
    \/ BeginRow
    \/ ExtendLeft
    \/ StopLeft
    \/ ExtendRight
    \/ StoreExtent
    \/ ReturnExtended

SpecExtend == InitExtend /\ [][NextExtend]_vars

\* The function is run to its end: a step that can be taken is taken.
SpecExtendFair == SpecExtend /\ WF_vars(NextExtend)

----------------------------------------------------------------------------
(* extend_matches run on the frame indexed_motif_finder returns *)

RECURSIVE LeftExtent(_, _)
\* Lines 300-308: the value of left when the first loop breaks, l being its
\* value now.
LeftExtent(row, l) ==
    IF CanExtendLeft(row, l) THEN LeftExtent(row, l + 1) ELSE l

RECURSIVE RightExtent(_, _)
\* Lines 309-318: the value of right when the second loop breaks.
RightExtent(row, r) ==
    IF CanExtendRight(row, r) THEN RightExtent(row, r + 1) ELSE r

\* Lines 291-321: one row of the frame, the three columns added.
ExtendedRow(row) ==
    IF row.reference_sequence = <<>>
    THEN WithExtentColumns(row)
    ELSE WithExtent(WithExtentColumns(row), LeftExtent(row, 0),
                    RightExtent(row, 0))

\* Lines 286-321: extend_matches(df), df being the frame returned with
\* all_matches=True.
ExtendMatches ==
    /\ pc = "done"
    /\ all_matches
    /\ out' = [n \in DOMAIN out |-> ExtendedRow(out[n])]
    /\ pc' = "matches_extended"
    /\ UNCHANGED <<kmer_dict, k, mutations, all_matches, i, start, max_start,
                   found_match, row_list>>
    /\ UNCHANGED <<aggVars, fraction, count_dict, buildVars, extendVars,
                   countVars>>

NextSearchExtend ==
    \/ BeginRecord
    \/ ProbeWindow
    \/ EndRecord
    \/ BuildAllMatchesDf
    \/ ReturnAllMatches
    \/ RaiseKeyError
    \/ ExtendMatches

SpecSearchExtend == InitSearch /\ [][NextSearchExtend]_vars

----------------------------------------------------------------------------
(* get_n_mutations *)

\* MutationTriple without the naive sequence.
MutationTripleWithoutNaive(rec) == <<"", rec.mutation_index, rec.mutated_base>>

\* Lines 382-385: the triple added for a row.
MutationTriple(rec) == <<rec.naive_seq, rec.mutation_index, rec.mutated_base>>

\* The rows of a mutations frame, over two naive sequences.
CountRecords ==
    {[rec EXCEPT !.naive_seq = nv] : rec \in Records, nv \in AggNaiveSeqs}

CountBatches ==
    {batch \in SeqsOf(CountRecords, 0, MaxRecords) : NamedInOrder(batch)}

InitCount ==
    /\ mutations \in CountBatches
    /\ unique \in BOOLEAN
    /\ mutation_set = {}
    /\ n_mutations = 0
    /\ pc = "mutations"
    /\ i = 1
    /\ kmer_dict = EmptyDict
    /\ k = 1
    /\ all_matches = TRUE
    /\ start = 0
    /\ max_start = 0
    /\ found_match = FALSE
    /\ row_list = <<>>
    /\ out = <<>>
    /\ AggIdle
    /\ fraction = <<0, 1>>
    /\ count_dict = EmptyDict
    /\ BuildIdle
    /\ ExtendIdle

\* Lines 377-378, unique being False.
ReturnRowCount ==
    /\ pc = "mutations"
    /\ ~unique
    /\ n_mutations' = Len(mutations)
    /\ pc' = "mutations_counted"
    /\ UNCHANGED <<searchVars, aggVars, fraction, count_dict, buildVars,
                   extendVars, unique, mutation_set>>

\* Lines 381-385: one iteration of the loop over the rows.
AddMutation ==
    /\ pc = "mutations"
    /\ unique
    /\ i <= Len(mutations)
    /\ mutation_set' = mutation_set \cup {MutationTriple(mutations[i])}
    /\ i' = i + 1
    /\ UNCHANGED <<kmer_dict, k, mutations, all_matches, pc, start, max_start,
                   found_match, row_list, out>>
    /\ UNCHANGED <<aggVars, fraction, count_dict, buildVars, extendVars,
                   unique, n_mutations>>

\* Line 386.
ReturnSetSize ==
    /\ pc = "mutations"
    /\ unique
    /\ i > Len(mutations)
    /\ n_mutations' = Cardinality(mutation_set)
    /\ pc' = "mutations_counted"
    /\ UNCHANGED <<searchVars, aggVars, fraction, count_dict, buildVars,
                   extendVars, unique, mutation_set>>

NextCount ==
    \/ ReturnRowCount
    \/ AddMutation
    \/ ReturnSetSize

SpecCount == InitCount /\ [][NextCount]_vars

----------------------------------------------------------------------------
(* motif_finder *)

\* The frames process_partis hands to motif_finder: one row per mutation,
\* a row carrying one position, and no two rows the same position of the
\* same mutated sequence.
MotifBatches ==
    {batch \in Batches(MaxRecords) :
        /\ \A n \in DOMAIN batch : Len(batch[n].mutation_index) = 1
        /\ \A m, n \in DOMAIN batch :
               (/\ batch[m].mutated_seq_id = batch[n].mutated_seq_id
                /\ batch[m].mutation_index = batch[n].mutation_index)
                   => m = n}

\* Lines 36-39: mutations is the frame of process_partis, kmer_dict the
\* index of up to one reference built with the same k, and
\* get_n_mutations is about to run.
InitMotif ==
    /\ k \in 1..MaxK
    /\ \E refs \in RefLists(1) :
           kmer_dict = MakeKmerDictionary(refs, k, FALSE)
    /\ mutations \in MotifBatches
    /\ unique \in BOOLEAN
    /\ all_matches = FALSE
    /\ mutation_set = {}
    /\ n_mutations = 0
    /\ pc = "mutations"
    /\ i = 1
    /\ start = 0
    /\ max_start = 0
    /\ found_match = FALSE
    /\ row_list = <<>>
    /\ out = <<>>
    /\ AggIdle
    /\ fraction = <<0, 1>>
    /\ count_dict = EmptyDict
    /\ BuildIdle
    /\ ExtendIdle

\* Lines 39-45: n_mutations is set, and indexed_motif_finder is called with
\* all_matches = False.
CallIndexedMotifFinder ==
    /\ pc = "mutations_counted"
    /\ i' = 1
    /\ pc' = "loop"
    /\ UNCHANGED <<kmer_dict, k, mutations, all_matches, start, max_start,
                   found_match, row_list, out>>
    /\ UNCHANGED <<aggVars, fraction, count_dict, buildVars, extendVars,
                   countVars>>

\* Lines 45-46: templated_number(imf_out, dale_method=False) is called on
\* the frame returned.
CallTemplatedNumber ==
    /\ pc = "done"
    /\ ~all_matches
    /\ df' = out
    /\ dale_method' = FALSE
    /\ already_seen_set' = {}
    /\ scoring' = EmptyDict
    /\ seen_log' = <<>>
    /\ i' = 1
    /\ pc' = "score"
    /\ UNCHANGED <<kmer_dict, k, mutations, all_matches, start, max_start,
                   found_match, row_list, out>>
    /\ UNCHANGED <<result, fraction, count_dict, buildVars, extendVars,
                   countVars>>

\* Lines 46-48: hits / n_mutations, kept as the pair of its terms.
\* n_mutations is 0 only for a frame without rows, and for that frame line
\* 45 has raised KeyError.
ReturnFraction ==
    /\ pc = "scored"
    /\ fraction' = <<result[1], n_mutations>>
    /\ pc' = "returned"
    /\ UNCHANGED <<searchVars, aggVars, count_dict, buildVars, extendVars,
                   countVars>>

NextMotif ==
    \/ ReturnRowCount
    \/ AddMutation
    \/ ReturnSetSize
    \/ CallIndexedMotifFinder
    \/ BeginRecord
    \/ ProbeWindow
    \/ EndRecord
    \/ BuildAllMatchesDf
    \/ ReturnMatchExists
    \/ RaiseKeyError
    \/ CallTemplatedNumber
    \/ ProcessRow
    \/ ReturnCounts
    \/ ReturnFraction

SpecMotif == InitMotif /\ [][NextMotif]_vars

----------------------------------------------------------------------------
(* Properties of indexed_motif_finder, checked under SpecSearch. *)

\* Every (name, sequence, offset) stored in the index.
Occurrences == UNION {kmer_dict[kmer] : kmer \in DOMAIN kmer_dict}

\* The window starts of the seed_starts range of a record.
WindowStarts(rec) ==
    LET range == SeedStarts(rec.mutation_index, k, Len(rec.mutated_seq))
    IN  range[1]..range[2]

\* The row belongs to the record: its five query columns are the record's.
IsRowOf(row, rec) ==
    /\ row.query_sequence = rec.mutated_seq
    /\ row.query_name = rec.mutated_seq_id
    /\ row.query_mutation_index = rec.mutation_index
    /\ row.naive_sequence = rec.naive_seq
    /\ row.mutated_base = rec.mutated_base

\* The window of the record at s reads the same k letters as the reference
\* occurrence occ = (name, sequence, offset).
WindowEqualsOccurrence(rec, s, occ) ==
    PySlice(rec.mutated_seq, s, s + k) = PySlice(occ[2], occ[3], occ[3] + k)

\* The (reference_name, reference_sequence, reference_alignment) a record
\* must report: one for each window and each occurrence reading the same
\* letters, aligned with the left-most mutated position.
ExpectedMatches(rec) ==
    {<<so[2][1], so[2][2], so[2][3] + (NpMin(rec.mutation_index) - so[1])>> :
        so \in {p \in WindowStarts(rec) \X Occurrences :
                   WindowEqualsOccurrence(rec, p[1], p[2])}}

ReportedMatches(rows, rec) ==
    {<<row.reference_name, row.reference_sequence, row.reference_alignment[1]>> :
        row \in {r \in Range(rows) :
                    IsRowOf(r, rec) /\ r.reference_alignment # NaN}}

\* C1: with all_matches=True the match rows returned for a record are exactly
\* those of the pairs (window start s of the seed_starts range, reference
\* occurrence) with mutated_seq[s:s+k] = ref_seq[ref_offset:ref_offset+k], and
\* the reference_alignment of each is ref_offset + (min(positions) - s).
C1_MatchRowsAreWindowOccurrences ==
    (pc = "done" /\ all_matches)
        => \A n \in DOMAIN mutations :
               ReportedMatches(out, mutations[n])
                   = ExpectedMatches(mutations[n])

\* C1 witness: a returned frame where a record of two mutations has matches
\* in two windows, one of them not starting at the left-most mutation.
C1_Witness ==
    /\ pc = "done"
    /\ all_matches
    /\ \E n \in DOMAIN mutations :
           /\ Len(mutations[n].mutation_index) = 2
           /\ Cardinality(ReportedMatches(out, mutations[n])) >= 2
           /\ \E s \in WindowStarts(mutations[n]), occ \in Occurrences :
                  /\ s < NpMin(mutations[n].mutation_index)
                  /\ WindowEqualsOccurrence(mutations[n], s, occ)

\* Some window of the record is a key of the index.
SomeWindowIsKey(rec) ==
    \E s \in WindowStarts(rec) :
        PySlice(rec.mutated_seq, s, s + k) \in DOMAIN kmer_dict

\* The no-match row of a record: NaN alignment, empty reference columns.
IsNoMatchRowOf(row, rec) ==
    /\ IsRowOf(row, rec)
    /\ row.reference_alignment = NaN
    /\ row.reference_name = ""
    /\ row.reference_sequence = <<>>

\* The number of records among the first n that equal rec.
TimesProcessed(rec, n) ==
    Cardinality({m \in 1..n : m \in DOMAIN mutations /\ mutations[m] = rec})

\* The number of rows of the row list that are without a defined alignment
\* and belong to rec.
NaNRowCount(rows, rec) ==
    Cardinality({m \in DOMAIN rows :
                    IsRowOf(rows[m], rec) /\ rows[m].reference_alignment = NaN})

NoMatchRowCount(rows, rec) ==
    Cardinality({m \in DOMAIN rows : IsNoMatchRowOf(rows[m], rec)})

\* C2: whenever the loop stands between two records, every record processed
\* so far has put exactly one no-match row (NaN alignment, empty reference
\* name and sequence) into row_list if no window of its seed_starts range,
\* empty range included, is a key of the index, and none if some window is;
\* the frame returned with all_matches=True has that one row or none for the
\* record; and the search fails for no record (the only failure is that of
\* the frame without rows).
C2_OneNoMatchRowIffNoWindowIsKey ==
    /\ (pc = "done" /\ all_matches)
           => \A n \in DOMAIN mutations :
                  LET rec == mutations[n]
                      expected == IF SomeWindowIsKey(rec) THEN 0 ELSE 1
                  IN  /\ NaNRowCount(out, rec) = expected
                      /\ NoMatchRowCount(out, rec) = expected
    /\ pc = "loop"
           => \A n \in 1..(i - 1) :
                  LET rec == mutations[n]
                      expected == IF SomeWindowIsKey(rec)
                                  THEN 0
                                  ELSE TimesProcessed(rec, i - 1)
                  IN  /\ NaNRowCount(row_list, rec) = expected
                      /\ NoMatchRowCount(row_list, rec) = expected
    /\ pc = "error" => mutations = <<>>

\* C2 witness: a record whose window range is empty has been processed and
\* has its no-match row, next to a record that matched.
C2_Witness ==
    /\ pc = "loop"
    /\ i = 3
    /\ WindowStarts(mutations[1]) = {}
    /\ NoMatchRowCount(row_list, mutations[1]) = 1
    /\ SomeWindowIsKey(mutations[2])

\* The (query_name, query_mutation_index, mutated_base) group of a row.
GroupOf(row) ==
    <<row.query_name, row.query_mutation_index, row.mutated_base>>

\* C3: with all_matches=False the frame returned has exactly one row for each
\* distinct (query_name, query_mutation_index, mutated_base) of the match
\* rows, and its match_exists is true iff some match row of the group has a
\* defined reference_alignment.
C3_OneCollapsedRowPerGroup ==
    (pc = "done" /\ ~all_matches)
        => /\ \A m, n \in DOMAIN out :
                  GroupOf(out[m]) = GroupOf(out[n]) => m = n
           /\ {GroupOf(out[n]) : n \in DOMAIN out}
                  = {GroupOf(row_list[n]) : n \in DOMAIN row_list}
           /\ \A n \in DOMAIN out :
                  out[n].match_exists
                      <=> \E m \in DOMAIN row_list :
                              /\ GroupOf(row_list[m]) = GroupOf(out[n])
                              /\ row_list[m].reference_alignment # NaN

\* C3 witness: two groups are returned, one matched through several match
\* rows and one unmatched.
C3_Witness ==
    /\ pc = "done"
    /\ ~all_matches
    /\ Len(out) = 2
    /\ out[1].match_exists
    /\ ~out[2].match_exists
    /\ Cardinality({m \in DOMAIN row_list :
                       GroupOf(row_list[m]) = GroupOf(out[1])}) >= 2

----------------------------------------------------------------------------
(* Properties of templated_number, checked under SpecAgg. *)

\* Row n carries a triple that an earlier row carries.
IsRepeat(rows, n) ==
    \E m \in 1..(n - 1) : Triple(rows[m]) = Triple(rows[n])

\* Row n is the first row carrying its triple.
IsFirst(rows, n) == ~IsRepeat(rows, n)

Triples(rows) == {Triple(rows[n]) : n \in DOMAIN rows}

\* The (query_name, position) pairs touched by the rows.
Entries(rows) ==
    UNION {{<<rows[n].query_name, rows[n].query_mutation_index[j]>> :
               j \in DOMAIN rows[n].query_mutation_index} : n \in DOMAIN rows}

Touches(row, entry) ==
    /\ row.query_name = entry[1]
    /\ entry[2] \in Range(row.query_mutation_index)

\* Some row touching the entry has match_exists.
TemplatedEntry(rows, entry) ==
    \E n \in DOMAIN rows : Touches(rows[n], entry) /\ rows[n].match_exists

\* Some row touching the entry repeats the triple of an earlier row.
RepeatedEntry(rows, entry) ==
    \E n \in DOMAIN rows : Touches(rows[n], entry) /\ IsRepeat(rows, n)

\* Every row carries one position, and no two rows the same position of the
\* same mutated sequence.
OneRowPerMutation(rows) ==
    /\ \A n \in DOMAIN rows : Len(rows[n].query_mutation_index) = 1
    /\ \A m, n \in DOMAIN rows :
           (/\ rows[m].query_name = rows[n].query_name
            /\ rows[m].query_mutation_index = rows[n].query_mutation_index)
               => m = n

\* Rows as the collapsed search gives them: one row for a mutation index of a
\* mutated sequence, one naive sequence and one base at a position for a
\* mutated sequence.
CollapsedRows(rows) ==
    \A m, n \in DOMAIN rows :
        rows[m].query_name = rows[n].query_name
            => /\ rows[m].naive_sequence = rows[n].naive_sequence
               /\ rows[m].query_mutation_index = rows[n].query_mutation_index
                      => m = n
               /\ \A a \in DOMAIN rows[m].query_mutation_index,
                     b \in DOMAIN rows[n].query_mutation_index :
                      rows[m].query_mutation_index[a]
                              = rows[n].query_mutation_index[b]
                          => rows[m].mutated_base[a] = rows[n].mutated_base[b]

\* C4: with dale_method=True the rows are processed in input order, the
\* seen_before of a row being true iff an earlier row carries its triple (the
\* row's own triple is inserted after it is scored); each state entry holds
\* the OR of match_exists and the OR of seen_before of the rows touching it,
\* and the result is (entries templated and not seen before, entries not
\* seen before).
C4_SeenBeforeFollowsInputOrder ==
    dale_method
        => /\ Len(seen_log) = i - 1
           /\ \A n \in DOMAIN seen_log : seen_log[n] <=> IsRepeat(df, n)
           /\ already_seen_set = Triples(SubSeq(df, 1, i - 1))
           /\ pc = "scored"
                  => /\ DOMAIN scoring = Entries(df)
                     /\ \A e \in Entries(df) :
                            scoring[e] = <<TemplatedEntry(df, e),
                                           RepeatedEntry(df, e)>>
                     /\ result[1] = Cardinality(
                            {e \in Entries(df) :
                                TemplatedEntry(df, e) /\ ~RepeatedEntry(df, e)})
                     /\ result[2] = Cardinality(
                            {e \in Entries(df) : ~RepeatedEntry(df, e)})

\* C4 witness: three rows are scored under dale_method, the third repeating
\* the triple of the first.
C4_Witness ==
    /\ pc = "scored"
    /\ dale_method
    /\ seen_log = <<FALSE, FALSE, TRUE>>
    /\ Triple(df[3]) = Triple(df[1])
    /\ df[3].query_name # df[1].query_name

\* The triples some row of which has match_exists.
TemplatedTriples(rows) ==
    {Triple(rows[n]) : n \in {m \in DOMAIN rows : rows[m].match_exists}}

\* The triples the first row of which has match_exists.
FirstTemplatedTriples(rows) ==
    {Triple(rows[n]) :
        n \in {m \in DOMAIN rows : IsFirst(rows, m) /\ rows[m].match_exists}}

\* C5 as claimed: with dale_method=True each unique mutation is counted once
\* and is credited as templated when any row carrying its triple has a
\* template.
C5_CreditsAnyRepeat ==
    (pc = "scored" /\ dale_method /\ OneRowPerMutation(df) /\ CollapsedRows(df))
        => /\ result[2] = Cardinality(Triples(df))
           /\ result[1] = Cardinality(TemplatedTriples(df))

\* C5 as amended: with dale_method=True and one single-position row for a
\* mutation of a mutated sequence, each unique triple is counted once and is
\* credited as templated iff the first row carrying it has a template; a
\* template found by a later row of the triple alone is not credited.
C5_CreditsFirstOccurrenceOnly ==
    (pc = "scored" /\ dale_method /\ OneRowPerMutation(df))
        => /\ result[2] = Cardinality(Triples(df))
           /\ result[1] = Cardinality(FirstTemplatedTriples(df))

\* C5 witness: a triple is carried by two mutated sequences, the first
\* without and the second with a template, and is not credited.
C5_Witness ==
    /\ pc = "scored"
    /\ dale_method
    /\ OneRowPerMutation(df)
    /\ Len(df) = 2
    /\ Triple(df[1]) = Triple(df[2])
    /\ ~df[1].match_exists
    /\ df[2].match_exists
    /\ result = <<0, 1>>

\* C6: with dale_method=False the templated count is the number of
\* (query_name, position) pairs touched by a row with match_exists, and the
\* denominator the number of pairs touched by any row, each position of a
\* tuple counting.
C6_CountsEntries ==
    (pc = "scored" /\ ~dale_method)
        => /\ result[1] = Cardinality(
                  {e \in Entries(df) : TemplatedEntry(df, e)})
           /\ result[2] = Cardinality(Entries(df))

\* C6 witness: a row of two positions shares a position with a row of the
\* other match_exists, so that the entry is the OR of the two.
C6_Witness ==
    /\ pc = "scored"
    /\ ~dale_method
    /\ \E m, n \in DOMAIN df :
           /\ Len(df[m].query_mutation_index) = 2
           /\ Len(df[n].query_mutation_index) = 1
           /\ df[m].query_name = df[n].query_name
           /\ ~df[m].match_exists
           /\ df[n].match_exists
    /\ result[1] = 1
    /\ result[2] = 2

\* Some triple is carried by two rows.
HasRepeatedTriple(rows) == \E n \in DOMAIN rows : IsRepeat(rows, n)

\* C7 as claimed: when rows share triples, the denominator under
\* dale_method=True is the number of distinct triples.
C7_DenominatorIsDistinctTriples ==
    (pc = "scored" /\ dale_method /\ HasRepeatedTriple(df) /\ CollapsedRows(df))
        => result[2] = Cardinality(Triples(df))

\* C7 as amended: when rows share triples, every row carries one position
\* and no two rows the same position of the same mutated sequence, the
\* denominator under dale_method=True is the number of distinct triples.
C7_DenominatorOfSinglePositions ==
    (pc = "scored" /\ dale_method /\ HasRepeatedTriple(df)
         /\ OneRowPerMutation(df))
        => result[2] = Cardinality(Triples(df))

\* C7 witness: three single-position rows, two of them with one triple, give
\* the denominator 2.
C7_Witness ==
    /\ pc = "scored"
    /\ dale_method
    /\ HasRepeatedTriple(df)
    /\ OneRowPerMutation(df)
    /\ Len(df) = 3
    /\ Cardinality(Triples(df)) = 2
    /\ result[2] = 2

\* C8: for both values of dale_method the templated count returned is at
\* most the denominator returned.
C8_CountAtMostDenominator ==
    pc = "scored" => result[1] <= result[2]

\* C8 witness: under dale_method an entry seen before is templated and is
\* left out of both counts, which are equal and positive.
C8_Witness ==
    /\ pc = "scored"
    /\ dale_method
    /\ \E key \in DOMAIN scoring : scoring[key][1] /\ scoring[key][2]
    /\ result[1] = result[2]
    /\ result[1] >= 1

\* C9: on the same rows in the same order the templated count with
\* dale_method=False is at least the templated count with dale_method=True.
C9_PlainCountAtLeastDaleCount ==
    pc = "scored"
        => IF dale_method
           THEN TemplatedNumber(df, FALSE)[1] >= result[1]
           ELSE result[1] >= TemplatedNumber(df, TRUE)[1]

\* C9 witness: the count with dale_method=True is strictly smaller.
C9_Witness ==
    /\ pc = "scored"
    /\ dale_method
    /\ result[1] >= 1
    /\ TemplatedNumber(df, FALSE)[1] > result[1]

Permuted(rows, perm) == [n \in DOMAIN rows |-> rows[perm[n]]]

\* C10: with dale_method=False every permutation of the rows gives the
\* result returned; with dale_method=True this can fail only when some
\* triple is carried by two rows.
C10_OrderMattersOnlyForRepeatsUnderDale ==
    (pc = "scored" /\ (~dale_method \/ ~HasRepeatedTriple(df)))
        => \A perm \in Permutations(DOMAIN df) :
               TemplatedNumber(Permuted(df, perm), dale_method) = result

\* C10 witness: under dale_method a permutation of the rows gives another
\* result.
C10_Witness ==
    /\ pc = "scored"
    /\ dale_method
    /\ HasRepeatedTriple(df)
    /\ \E perm \in Permutations(DOMAIN df) :
           TemplatedNumber(Permuted(df, perm), TRUE) # result

----------------------------------------------------------------------------
(* The division of the caller of templated_number, checked under SpecAgg. *)

\* C11 as claimed: when templated_number returns a denominator of zero, the
\* division of line 88 ends with the fraction being NaN and not with a
\* ZeroDivisionError.
C11_ZeroDenominatorGivesNaN ==
    (pc \in {"divided", "ZeroDivisionError"} /\ result[2] = 0)
        => (pc = "divided" /\ fraction = NaN)

----------------------------------------------------------------------------
(* Properties of make_kmer_dictionary and seed_starts, checked under       *)
(* SpecIndex.                                                              *)

\* The index has been returned.
Built == pc \in {"built", "seeded"}

\* The letters of seq at offsets o .. o + n - 1.
Letters(seq, o, n) == SubSeq(seq, o + 1, o + n)

\* The length-n substrings of the sequences of refs.
SubstringsOf(refs, n) ==
    UNION {{Letters(refs[m].seq, o, n) : o \in 0..(Len(refs[m].seq) - n)} :
              m \in DOMAIN refs}

\* The (name, sequence, offset) at which key is read in refs.
OccurrencesOf(refs, key) ==
    UNION {{<<refs[m].name, refs[m].seq, o>> :
               o \in {x \in 0..(Len(refs[m].seq) - Len(key)) :
                         Letters(refs[m].seq, x, Len(key)) = key}} :
              m \in DOMAIN refs}

\* C12: for k >= 1 the keys of the index returned are exactly the length-k
\* substrings of the references, the set of a key is exactly the (name,
\* sequence, offset) with 0 <= offset <= len(sequence) - k reading the key
\* at the offset, a reference shorter than k has no entry, and the index is
\* empty when k exceeds the length of every reference.
C12_IndexHoldsExactlyTheKmers ==
    (Built /\ k >= 1)
        => /\ DOMAIN kmer_dict = SubstringsOf(references, k)
           /\ \A key \in DOMAIN kmer_dict :
                  kmer_dict[key] = OccurrencesOf(references, key)
           /\ \A m \in DOMAIN references :
                  Len(references[m].seq) < k
                      => \A key \in DOMAIN kmer_dict :
                             \A occ \in kmer_dict[key] :
                                 occ[1] # references[m].name
           /\ (\A m \in DOMAIN references : Len(references[m].seq) < k)
                  => kmer_dict = EmptyDict

\* C12 witness: an index over two references, one shorter than k and one
\* reading a k-mer at two offsets.
C12_Witness ==
    /\ Built
    /\ ~reverse_complement
    /\ k = 2
    /\ Len(references) = 2
    /\ Len(references[1].seq) < k
    /\ \E key \in DOMAIN kmer_dict : Cardinality(kmer_dict[key]) = 2

ComplementPairs ==
    {<<"A", "T">>, <<"T", "A">>, <<"C", "G">>, <<"G", "C">>}

\* The synthetic reference of ref: its name with _rc, and its sequence read
\* from the end with every base replaced by its partner.
SyntheticReference(ref) ==
    [name |-> ref.name \o "_rc",
     seq |-> [n \in 1..Len(ref.seq) |->
                 CHOOSE b \in IndexAlphabet :
                     <<ref.seq[Len(ref.seq) + 1 - n], b>> \in ComplementPairs]]

SyntheticReferences(refs) ==
    [n \in DOMAIN refs |-> SyntheticReference(refs[n])]

\* C13: with reverse_complement=True the index returned equals the index
\* built without the flag from the references followed by one synthetic
\* reference <name>_rc for each, holding its reverse complement; and every
\* k-mer of a reference and of its reverse complement is in the index with
\* the offset at which that orientation reads it.
C13_IndexOfBothOrientations ==
    (Built /\ reverse_complement)
        => LET both == references_in \o SyntheticReferences(references_in)
           IN  /\ kmer_dict = MakeKmerDictionary(both, k, FALSE)
               /\ k >= 1
                      => \A m \in DOMAIN both :
                             \A o \in 0..(Len(both[m].seq) - k) :
                                 LET kmer == Letters(both[m].seq, o, k)
                                 IN  /\ kmer \in DOMAIN kmer_dict
                                     /\ <<both[m].name, both[m].seq, o>>
                                            \in kmer_dict[kmer]

\* C13 witness: the reference ATC with k = 2 gives the keys AT, TC and GA,
\* AT being at offset 0 of r1 and at offset 1 of r1_rc.
C13_Witness ==
    /\ Built
    /\ reverse_complement
    /\ k = 2
    /\ references_in = <<[name |-> "r1", seq |-> <<"A", "T", "C">>]>>
    /\ DOMAIN kmer_dict = {<<"A", "T">>, <<"T", "C">>, <<"G", "A">>}
    /\ kmer_dict[<<"A", "T">>] = {<<"r1", <<"A", "T", "C">>, 0>>,
                                  <<"r1_rc", <<"G", "A", "T">>, 1>>}

\* k is greater than the length of every reference indexed.
ExceedsEveryReference ==
    \A m \in DOMAIN references : k > Len(references[m].seq)

\* The window range returned by seed_starts is empty.
NoWindow == starts[1] > starts[2]

\* C14 as claimed: with k < 1, or k greater than every reference and query
\* length, the index returned is empty and the window range of the search
\* is empty.
C14_DegenerateKGivesEmptyIndexAndWindows ==
    /\ (Built /\ (k < 1 \/ ExceedsEveryReference)) => kmer_dict = EmptyDict
    /\ (pc = "seeded" /\ (k < 1 \/ k > sequence_len)) => NoWindow

\* C14: with k greater than the length of every reference the index
\* returned is empty, and with k < 1 or k greater than the length of the
\* query the window range is empty; with k < 1 and some reference the index
\* is not empty, and for k = 0 it holds the empty string alone, at every
\* offset 0..len of every reference.
C14_OversizedKGivesEmptyIndex ==
    /\ (Built /\ ExceedsEveryReference) => kmer_dict = EmptyDict
    /\ (pc = "seeded" /\ (k < 1 \/ k > sequence_len)) => NoWindow
    /\ (Built /\ k < 1 /\ references # <<>>) => kmer_dict # EmptyDict
    /\ (Built /\ k = 0 /\ references # <<>>)
           => /\ DOMAIN kmer_dict = {<<>>}
              /\ kmer_dict[<<>>]
                     = UNION {{<<references[m].name, references[m].seq, o>> :
                                  o \in 0..Len(references[m].seq)} :
                                 m \in DOMAIN references}

\* C14 witness: k = 0 with a reference of three letters; the index holds
\* four offsets and the window range of the query is empty.
C14_Witness ==
    /\ pc = "seeded"
    /\ k = 0
    /\ Len(references) = 1
    /\ Len(references[1].seq) = 3
    /\ Cardinality(kmer_dict[<<>>]) = 4
    /\ NoWindow

\* The greatest and the least element of a set of integers.
Greatest(S) == CHOOSE x \in S : \A y \in S : y <= x

Least(S) == CHOOSE x \in S : \A y \in S : x <= y

\* C15: seed_starts(positions, window_len, sequence_len) returns
\* (max(0, max(positions) - window_len + 1),
\*  min(sequence_len - window_len, min(positions))), for one position and
\* for a tuple of positions.
C15_SeedStartsFormula ==
    pc = "seeded"
        => starts = <<Greatest({0, Greatest(Range(positions)) - k + 1}),
                      Least({sequence_len - k, Least(Range(positions))})>>

\* C15 witness: the positions (1, 2) with a window of 2 in a sequence of 3
\* give (1, 1), the last start being bounded by the end of the sequence.
C15_Witness ==
    /\ pc = "seeded"
    /\ positions = <<1, 2>>
    /\ k = 2
    /\ sequence_len = 3
    /\ starts = <<1, 1>>

----------------------------------------------------------------------------
(* Properties of the windows, of n_alignments_per_mutation and of the      *)
(* independence of the records, checked under SpecSearch.                  *)

\* C16: every start the loop over the seed_starts range reaches gives a
\* window [start, start + k) that contains every mutated position of the
\* record and lies within [0, len(mutated_seq)).
C16_WindowsCoverThePositions ==
    (pc = "window" /\ start <= max_start)
        => LET rec == mutations[i]
           IN  /\ \A p \in Range(rec.mutation_index) :
                      start <= p /\ p < start + k
               /\ 0 <= start
               /\ start + k <= Len(rec.mutated_seq)

\* C16 witness: the loop is at a window of two letters that does not start
\* at 0, holds two mutated positions and ends with the sequence.
C16_Witness ==
    /\ pc = "window"
    /\ start <= max_start
    /\ start > 0
    /\ k = 2
    /\ Len(mutations[i].mutation_index) = 2
    /\ start + k = Len(mutations[i].mutated_seq)

\* The key of a record in count_dict.
CountKey(rec) == <<rec.mutated_seq_id, rec.mutation_index>>

\* The number of match rows appended for the record before deduplication.
RowsAppendedFor(rec) ==
    Cardinality({n \in DOMAIN row_list :
                    /\ IsRowOf(row_list[n], rec)
                    /\ row_list[n].reference_alignment # NaN})

\* C17: n_alignments_per_mutation has one count for each (query_name,
\* query_mutation_index) of the records, the count is the number of distinct
\* (reference_name, reference_sequence, reference_alignment) of the windows
\* of the record that occur in a reference, however many windows lead to
\* one of them, and it is 0 exactly when no window of the record is a key
\* of the index.
C17_CountsDistinctHypotheses ==
    pc = "counted"
        => /\ DOMAIN count_dict = {CountKey(rec) : rec \in Range(mutations)}
           /\ \A rec \in Range(mutations) :
                  /\ count_dict[CountKey(rec)]
                         = Cardinality(ExpectedMatches(rec))
                  /\ count_dict[CountKey(rec)] = 0 <=> ~SomeWindowIsKey(rec)

\* C17 witness: a record has at least two hypotheses, one of them found
\* through two windows, and a second record has none.
C17_Witness ==
    /\ pc = "counted"
    /\ Len(mutations) = 2
    /\ count_dict[CountKey(mutations[1])] >= 2
    /\ count_dict[CountKey(mutations[1])] < RowsAppendedFor(mutations[1])
    /\ count_dict[CountKey(mutations[2])] = 0

\* The rows a search of the record alone returns with all_matches=True:
\* one for each window that is a key and each occurrence in its set, or
\* the no-match row.
RowsOfRecordAlone(rec) ==
    IF SomeWindowIsKey(rec)
    THEN UNION {{MatchRow(rec, occ, NpMin(rec.mutation_index) - s) :
                    occ \in kmer_dict[PySlice(rec.mutated_seq, s, s + k)]} :
                   s \in {w \in WindowStarts(rec) :
                             PySlice(rec.mutated_seq, w, w + k)
                                 \in DOMAIN kmer_dict}}
    ELSE {NoMatchRow(rec)}

\* C20: the frame returned with all_matches=True holds, each once, the
\* rows that the searches of its records alone return, whatever the order
\* of the records; and no step of the search changes kmer_dict.
C20_RecordsAreSearchedIndependently ==
    /\ []((pc \in {"done", "counted"} /\ all_matches)
             => /\ Range(out)
                       = UNION {RowsOfRecordAlone(rec) : rec \in Range(mutations)}
                /\ \A m, n \in DOMAIN out : out[m] = out[n] => m = n)
    /\ [][kmer_dict' = kmer_dict]_vars

\* C20 witness: two records of different mutated sequences have been
\* searched, both have match rows in the frame returned, and a row found
\* twice is in it once.
C20_Witness ==
    /\ pc = "done"
    /\ all_matches
    /\ Len(mutations) = 2
    /\ mutations[1].mutated_seq # mutations[2].mutated_seq
    /\ SomeWindowIsKey(mutations[1])
    /\ SomeWindowIsKey(mutations[2])
    /\ Len(out) < Len(row_list)

----------------------------------------------------------------------------
(* Properties of extend_matches, checked under SpecExtendFair. *)

\* The letters of the row agree at the distance j to the left of the
\* mutation and its alignment.
AgreeLeft(row, j) ==
    row.query_sequence[QueryIdx(row) - j + 1]
        = row.reference_sequence[RefIdx(row) - j + 1]

\* The same, to the right.
AgreeRight(row, j) ==
    row.query_sequence[QueryIdx(row) + j + 1]
        = row.reference_sequence[RefIdx(row) + j + 1]

\* The largest number of consecutive agreeing positions to the left before
\* a mismatch or the start of either sequence.
LongestLeft(row) ==
    Greatest({l \in 0..Min2(QueryIdx(row), RefIdx(row)) :
                 \A j \in 1..l : AgreeLeft(row, j)})

\* The largest number of consecutive agreeing positions to the right
\* before a mismatch or the end of either sequence.
LongestRight(row) ==
    Greatest({r \in 0..Min2(Len(row.query_sequence) - 1 - QueryIdx(row),
                             Len(row.reference_sequence) - 1 - RefIdx(row)) :
                 \A j \in 1..r : AgreeRight(row, j)})

\* C18: extend_matches comes to its end, both loops of every row
\* terminating, and every row with a reference then has match_extent =
\* left + right + 1, query_left_idx = query_idx - left and query_right_idx =
\* query_idx + right, left and right being the largest numbers of
\* consecutive agreeing positions on either side of (min of
\* query_mutation_index, reference_alignment).
C18_ExtentIsLongestAgreement ==
    /\ <>(pc = "extended")
    /\ [](pc = "extended"
             => \A n \in DOMAIN df :
                    df[n].reference_sequence # <<>>
                        => LET l == LongestLeft(df[n])
                               r == LongestRight(df[n])
                           IN  /\ df[n].match_extent = l + r + 1
                               /\ df[n].query_left_idx = QueryIdx(df[n]) - l
                               /\ df[n].query_right_idx = QueryIdx(df[n]) + r)

\* C18 witness: a row extended by one letter to the left, where a mismatch
\* stops it, and by none to the right, where the query ends.
C18_Witness ==
    /\ pc = "extended"
    /\ Len(df) = 1
    /\ df[1].reference_sequence # <<>>
    /\ QueryIdx(df[1]) = 2
    /\ RefIdx(df[1]) = 2
    /\ df[1].query_sequence[1] # df[1].reference_sequence[1]
    /\ df[1].match_extent = 2
    /\ df[1].query_left_idx = 1
    /\ df[1].query_right_idx = 2

----------------------------------------------------------------------------
(* Properties of get_n_mutations, checked under SpecCount. *)

\* The rows that no earlier row equals in naive_seq, mutation_index and
\* mutated_base.
FirstObservations ==
    {n \in DOMAIN mutations :
        \A m \in 1..(n - 1) :
            \/ mutations[m].naive_seq # mutations[n].naive_seq
            \/ mutations[m].mutation_index # mutations[n].mutation_index
            \/ mutations[m].mutated_base # mutations[n].mutated_base}

\* C19: get_n_mutations returns the number of rows when unique is False,
\* and when unique is True the number of distinct (naive_seq,
\* mutation_index, mutated_base) of the rows, which is at most the number
\* of rows.
C19_CountsRowsOrDistinctTriples ==
    pc = "mutations_counted"
        => /\ ~unique => n_mutations = Len(mutations)
           /\ unique => /\ n_mutations = Cardinality(FirstObservations)
                         /\ n_mutations <= Len(mutations)

\* C19 witness: two rows of different mutated sequences carry one triple
\* and are counted once.
C19_Witness ==
    /\ pc = "mutations_counted"
    /\ unique
    /\ Len(mutations) = 2
    /\ mutations[1].mutated_seq_id # mutations[2].mutated_seq_id
    /\ n_mutations = 1

----------------------------------------------------------------------------
(* extend_matches on the rows of the search *)

\* The window of the record at s and the occurrence occ give the row: the
\* row names the reference of occ and is aligned where the left-most mutated
\* position falls when the window lies on occ.
IsSeedOf(row, rec, s, occ) ==
    /\ row.reference_name = occ[1]
    /\ row.reference_sequence = occ[2]
    /\ row.reference_alignment = <<occ[3] + (NpMin(rec.mutation_index) - s)>>
    /\ WindowEqualsOccurrence(rec, s, occ)

\* The records the row can come from.
RecordsOfRow(row) == {rec \in Range(mutations) : IsRowOf(row, rec)}

\* Some window of a record and some occurrence give the row.
HasSeed(row) ==
    \E rec \in RecordsOfRow(row) :
        \E s \in WindowStarts(rec) :
            \E occ \in Occurrences : IsSeedOf(row, rec, s, occ)

\* The extent columns of the row cover every window that gives it.
CoversItsSeeds(row) ==
    \A rec \in RecordsOfRow(row) :
        \A s \in WindowStarts(rec) :
            \A occ \in Occurrences :
                IsSeedOf(row, rec, s, occ) =>
                    /\ row.query_left_idx <= s
                    /\ s + k - 1 <= row.query_right_idx

\* C21: in the frame extend_matches returns for a search with all_matches=True
\* (index and search sharing k), every match row has reference_alignment in
\* [0, len(reference_sequence)), comes from some seed window, has
\* match_extent >= k, and [query_left_idx, query_right_idx] covers every seed
\* window [s, s + k - 1] that gives the row.
C21_ExtentCoversSeedWindow ==
    pc = "matches_extended" =>
        \A n \in DOMAIN out :
            out[n].reference_alignment # NaN =>
                /\ RefIdx(out[n]) >= 0
                /\ RefIdx(out[n]) < Len(out[n].reference_sequence)
                /\ out[n].match_extent >= k
                /\ HasSeed(out[n])
                /\ CoversItsSeeds(out[n])

\* A row found by a window of two letters that starts to the left of the
\* mutated position, and extended over a third letter.
C21_Witness ==
    /\ pc = "matches_extended"
    /\ k = 2
    /\ \E n \in DOMAIN out :
           /\ out[n].reference_alignment # NaN
           /\ out[n].match_extent = 3
           /\ out[n].query_left_idx = 0
           /\ out[n].query_right_idx = 2
           /\ \E rec \in RecordsOfRow(out[n]) :
                  \E occ \in Occurrences :
                      /\ 0 \in WindowStarts(rec)
                      /\ 0 < QueryIdx(out[n])
                      /\ IsSeedOf(out[n], rec, 0, occ)

----------------------------------------------------------------------------
(* The fraction motif_finder returns *)

\* C22: when motif_finder returns, the number of templated mutations
\* (templated_number with dale_method=False over the collapsed search
\* output) does not exceed the denominator n_mutations of get_n_mutations,
\* with unique_mutations False or True: the fraction is at most 1.
C22_FractionAtMostOne ==
    pc = "returned" =>
        /\ fraction = <<result[1], n_mutations>>
        /\ fraction[1] <= fraction[2]

====
